---- MODULE Spec2Model ----
(***************************************************************************)
(* Replication-lag monitoring for 389 Directory Server access logs.        *)
(*                                                                         *)
(* The module holds several state machines over one set of variables:      *)
(*   SpecMerge  - ds389_merge_logs.py: main() = process_file/split_json on  *)
(*                every input document, merge_jsons on the pieces, and the  *)
(*                split of the written output by a following run.           *)
(*   Spec       - ds389_logs_plot.py parse_logs reading log files through  *)
(*                DSLogParserFallback.parse_file, line by line, any lines.  *)
(*   SpecE2E    - the same run over two replicas' logs of given content.    *)
(*   SpecBatch  - the same run with every batch size up to BatchSize.       *)
(*   SpecPairs  - the same run over the lines of two operations.            *)
(*   SpecOrder  - parse_logs over files given by the records they yield.    *)
(*   SpecFilter - the same with the filters of parse_logs configured.       *)
(*   SpecLegacy - ds389_replication_monitoring: DSLogParser.parse_file and  *)
(*                ReplLag.Parser.action.                                    *)
(*   SpecPlot   - ds389_replication_monitoring: the plot module's main,     *)
(*                LagInfo.json_parse with its filters.                      *)
(*   SpecStamp  - parse_timestamp applied to the fraction of a second.      *)
(* Each specification leaves the variables of the others at their idle     *)
(* values.                                                                 *)
(***************************************************************************)
EXTENDS Integers, Sequences, FiniteSets, TLC

VARIABLES
    \* ---- ds389_merge_logs.py ----
    files,                \* module.params['files']: the documents on disk
    mpc,                  \* position of main(): "split", "merge", "written", "resplit", "failed"
    json_processed_list,  \* main(): the list handed to merge_jsons
    merged_result,        \* main(): the document written to `output`
    file_pos,             \* main(): files already processed
    resplit,              \* split_json of the written output (a following run's process_file)
    fail_msg,             \* what module.fail_json was called with
    \* ---- ds389_logs_plot.py of ds389_replication_monitoring ----
    module_params,        \* the plot module's options
    json_dict,            \* the document the plot module loads from its input
    lag_infos,            \* LagInfo.lag: the CsnInfo objects json_parse kept
    plot_pc,              \* the plot module's main: "load", "plotted", "failed"
    \* ---- parse_timestamp on the fraction of a second ----
    frac,                 \* the digits after the '.' of the timestamp given
    micro,                \* None, or Some of what parse_timestamp returned for them
    \* ---- ds389_log_parser.py / ds389_logs_plot.py ----
    cfg,                  \* the analyzer's configuration (time range, filters, zone)
    pc,                   \* parse_logs: "collect" (between files), "reading", "done", "raised"
    idx,                  \* parse_logs: index of the server whose file is read
    nfiles,               \* log files opened so far
    server_data,          \* the log files of the run when their content is given
    lineno,               \* DSLogParser.lineno
    pending_ops,          \* DSLogParser.pending_ops, in dict order
    current_batch,        \* DSLogParser._current_batch
    built,                \* records _create_record built (before its range check)
    delivered,            \* records parse_file yielded to its consumer
    last_end,             \* how the last parse_file ended: "", "eof", "error"
    csns,                 \* the analyzer's change-id map
    start_udt,            \* earliest instant seen (None or Some)
    start_dt,             \* the datetime it was read from (None or Some)
    hop_lags              \* the '__hop_lags__' lists parse_logs attaches

mergeVars == <<files, mpc, file_pos, json_processed_list, merged_result, resplit, fail_msg>>

parserVars == <<lineno, pending_ops, current_batch, built, delivered, last_end>>

aggVars == <<csns, start_udt, start_dt, hop_lags>>

plotVars == <<module_params, json_dict, lag_infos, plot_pc>>

stampVars == <<frac, micro>>

runVars == <<cfg, pc, idx, nfiles, server_data>>

vars == <<mergeVars, runVars, parserVars, aggVars, plotVars, stampVars>>

-----------------------------------------------------------------------------
(* Bounds of the model *)

MaxDocs == 2        \* input documents given to the merge module

CSNs == {"K1", "K2"}

Last(s) == s[Len(s)]

RECURSIVE Concat(_)
Concat(ss) == IF ss = <<>> THEN <<>> ELSE Head(ss) \o Concat(Tail(ss))

-----------------------------------------------------------------------------
(* Result documents (spec section 6).  A Python dict with optional keys is *)
(* a record of has_* flags; a dict whose key order the code reads (the     *)
(* replica map of one change id) is a sequence of [k, e] items in          *)
(* insertion order.                                                        *)

\* str(start_dt): a wall-clock reading plus the UTC offset it was taken at.
\* <<1,0>> and <<2,1>> are one instant written in two offsets; <<2,2>> is the
\* latest reading and the earliest instant.
StartTimes == {[wall |-> 1, off |-> 0], [wall |-> 2, off |-> 1], [wall |-> 2, off |-> 2]}

Entries == {[logtime |-> 1], [logtime |-> 2]}

NoStart == [wall |-> 0, off |-> 0]

\* the three earliest-instant fields as build_result writes them
CommonFields(dt) ==
    [has_start |-> TRUE, start |-> dt, utc_start |-> dt.wall - dt.off, utc_offset |-> dt.off]

MakeDoc(common, has_files, logfiles, has_lag, lag) ==
    [has_start |-> common.has_start, start |-> common.start,
     utc_start |-> common.utc_start, utc_offset |-> common.utc_offset,
     has_files |-> has_files, logfiles |-> logfiles,
     has_lag |-> has_lag, lag |-> lag]

CommonOf(doc) ==
    [has_start |-> doc.has_start, start |-> doc.start,
     utc_start |-> doc.utc_start, utc_offset |-> doc.utc_offset]

EmptyLag == [K \in {} |-> <<>>]

NoDoc == MakeDoc([has_start |-> FALSE, start |-> NoStart, utc_start |-> 0, utc_offset |-> 0],
                 FALSE, <<>>, FALSE, EmptyLag)

\* replica maps of a single-file document: one entry under key 0
InnerMaps1 == {<<[k |-> 0, e |-> e]>> : e \in Entries}

\* replica maps of a two-file document: replica 0, replica 1 or both, in
\* either insertion order
InnerMaps2 ==
    {<<[k |-> 0, e |-> [logtime |-> 1]]>>,
     <<[k |-> 1, e |-> [logtime |-> 2]]>>,
     <<[k |-> 0, e |-> [logtime |-> 1]], [k |-> 1, e |-> [logtime |-> 2]]>>,
     <<[k |-> 1, e |-> [logtime |-> 2]], [k |-> 0, e |-> [logtime |-> 1]]>>}

LagMaps(inner) == UNION {[S -> inner] : S \in SUBSET CSNs}

\* the log files of the input document at position n of the file list
LogFile(n, part) == [doc |-> n, part |-> part]

SingleDocs ==
    {MakeDoc(CommonFields(dt), TRUE, <<"f1">>, TRUE, lag) :
        dt \in StartTimes, lag \in LagMaps(InnerMaps1)}

\* results of an earlier merge of two files
DoubleDocs ==
    {MakeDoc(CommonFields([wall |-> 1, off |-> 0]), TRUE, <<"f1", "f2">>, TRUE, lag) :
        lag \in LagMaps(InnerMaps2)}

\* documents that break the contract: a required top-level field missing, a
\* change id left with an empty replica map, a replica key past the log files
DropField(doc, f) ==
    CASE f = "start-time" -> [doc EXCEPT !.has_start = FALSE, !.start = NoStart]
      [] f = "log-files"  -> [doc EXCEPT !.has_files = FALSE, !.logfiles = <<>>]
      [] f = "lag"        -> [doc EXCEPT !.has_lag = FALSE, !.lag = EmptyLag]

RequiredFields == {"start-time", "log-files", "lag"}

SampleDoc ==
    MakeDoc(CommonFields([wall |-> 1, off |-> 0]), TRUE, <<"f1">>, TRUE,
            [K \in {"K1"} |-> <<[k |-> 0, e |-> [logtime |-> 1]]>>])

BrokenDocs ==
    {DropField(SampleDoc, f) : f \in RequiredFields}
    \cup {[SampleDoc EXCEPT !.lag = [K \in {"K1"} |-> <<>>]],
          [SampleDoc EXCEPT !.lag = [K \in {"K1"} |-> <<[k |-> 1, e |-> [logtime |-> 1]]>>]]}

Lacks(doc) == ~doc.has_start \/ ~doc.has_files \/ ~doc.has_lag

\* the document read from position n of the file list: its log files are
\* named after the position, so that two inputs never share a log file
Place(doc, n) ==
    [doc EXCEPT !.logfiles = [j \in 1..Len(doc.logfiles) |-> LogFile(n, j)]]

-----------------------------------------------------------------------------
(* ds389_merge_logs.py *)

\* a comparison of the start-time strings that ignores their UTC offsets
fromisoformat_naive(s) == s.wall

\* datetime.fromisoformat of a start-time string: an aware datetime, which
\* Python orders by its UTC instant
fromisoformat(s) == s.wall - s.off

\* min(json_list, key=...): the first element with the least key
EarliestIndex(json_list) ==
    CHOOSE i \in 1..Len(json_list) :
        /\ \A j \in 1..Len(json_list) :
              fromisoformat(json_list[i].start) <= fromisoformat(json_list[j].start)
        /\ \A j \in 1..(i-1) :
              fromisoformat(json_list[j].start) # fromisoformat(json_list[i].start)

\* a merge that keeps each entry under the key it has in its input
RECURSIVE MergeInnerKeepKey(_, _, _)
MergeInnerKeepKey(json_list, K, ix) ==
    IF ix > Len(json_list) THEN <<>>
    ELSE LET lag == json_list[ix].lag
             here == IF K \in DOMAIN lag /\ lag[K] # <<>>
                     THEN <<[k |-> Last(lag[K]).k, e |-> Last(lag[K]).e]>>
                     ELSE <<>>
         IN here \o MergeInnerKeepKey(json_list, K, ix + 1)

\* lines 73-78: merged["lag"][key][str(ix)] = inner_value, for every item of
\* input ix's replica map (the last item is the one that stays)
RECURSIVE MergeInner(_, _, _)
MergeInner(json_list, K, ix) ==
    IF ix > Len(json_list) THEN <<>>
    ELSE LET lag == json_list[ix].lag
             here == IF K \in DOMAIN lag /\ lag[K] # <<>>
                     THEN <<[k |-> ix - 1, e |-> Last(lag[K]).e]>>
                     ELSE <<>>
         IN here \o MergeInner(json_list, K, ix + 1)

MergeLag(json_list) ==
    LET keys == UNION {DOMAIN json_list[i].lag : i \in 1..Len(json_list)}
    IN [K \in keys |-> MergeInner(json_list, K, 1)]

\* merge_jsons: [ok, doc] or the exception it raises
merge_jsons(json_list) ==
    IF json_list = <<>> THEN [ok |-> FALSE, exc |-> "ValueError", doc |-> NoDoc]
    ELSE IF \E i \in 1..Len(json_list) : ~json_list[i].has_start
    THEN [ok |-> FALSE, exc |-> "KeyError", doc |-> NoDoc]
    ELSE IF \E i \in 1..Len(json_list) : ~json_list[i].has_files \/ ~json_list[i].has_lag
    THEN [ok |-> FALSE, exc |-> "KeyError", doc |-> NoDoc]
    ELSE LET earliest_json == json_list[EarliestIndex(json_list)]
         IN [ok |-> TRUE, exc |-> "",
             doc |-> MakeDoc(CommonOf(earliest_json), TRUE,
                             Concat([i \in 1..Len(json_list) |-> json_list[i].logfiles]),
                             TRUE, MergeLag(json_list))]

\* lines 93-95: file_index = int(list(lag_info.keys())[0])
FileIndexOf(lag_info) == lag_info[1].k

EntryAt(lag_info, key) ==
    (CHOOSE m \in {lag_info[p] : p \in 1..Len(lag_info)} : m.k = key).e

SplitLagFor(data, i) ==
    LET mine == {K \in DOMAIN data.lag : FileIndexOf(data.lag[K]) = i}
    IN [K \in mine |-> <<[k |-> 0, e |-> EntryAt(data.lag[K], i)]>>]

\* split_json: [ok, docs] or the exception it raises
split_json(data) ==
    IF ~data.has_files \/ ~data.has_lag
    THEN [ok |-> FALSE, exc |-> "KeyError", docs |-> <<>>]
    ELSE IF \E K \in DOMAIN data.lag :
               \/ data.lag[K] = <<>>
               \/ FileIndexOf(data.lag[K]) >= Len(data.logfiles)
    THEN [ok |-> FALSE, exc |-> "IndexError", docs |-> <<>>]
    ELSE [ok |-> TRUE, exc |-> "",
          docs |-> [i \in 1..Len(data.logfiles) |->
                      MakeDoc(CommonOf(data), TRUE, <<data.logfiles[i]>>,
                              TRUE, SplitLagFor(data, i - 1))]]

NoFail == [by |-> "", file |-> 0, exc |-> ""]

\* process_file: split_json on one input file; any exception becomes
\* fail_json(msg="Failed to read <file_path>: ...")
process_file(n) ==
    LET r == split_json(files[n])
    IN IF r.ok
       THEN [ok |-> TRUE, docs |-> r.docs, msg |-> NoFail]
       ELSE [ok |-> FALSE, docs |-> <<>>,
             msg |-> [by |-> "process_file", file |-> n, exc |-> r.exc]]

\* main(), lines 122-125: one turn of the loop over `files`
ProcessFile ==
    /\ mpc = "split"
    /\ file_pos < Len(files)
    /\ LET r == process_file(file_pos + 1)
       IN IF r.ok
          THEN /\ json_processed_list' = json_processed_list \o r.docs
               /\ file_pos' = file_pos + 1
               /\ mpc' = IF file_pos + 1 = Len(files) THEN "merge" ELSE "split"
               /\ UNCHANGED fail_msg
          ELSE /\ fail_msg' = r.msg
               /\ mpc' = "failed"
               /\ UNCHANGED <<json_processed_list, file_pos>>
    /\ UNCHANGED <<files, merged_result, resplit,
                   runVars, parserVars, aggVars, plotVars, stampVars>>

\* main(), lines 126-133: merge_jsons and the dump of its result; an
\* exception becomes fail_json(msg=str(e)), which carries no file path
MergeStep ==
    /\ mpc = "merge"
    /\ LET r == merge_jsons(json_processed_list)
       IN IF r.ok
          THEN /\ merged_result' = r.doc
               /\ mpc' = "written"
               /\ UNCHANGED fail_msg
          ELSE /\ fail_msg' = [by |-> "main", file |-> 0, exc |-> r.exc]
               /\ mpc' = "failed"
               /\ UNCHANGED merged_result
    /\ UNCHANGED <<files, file_pos, json_processed_list, resplit,
                   runVars, parserVars, aggVars, plotVars, stampVars>>

\* a following run reads the written output back: process_file -> split_json
Resplit ==
    /\ mpc = "written"
    /\ LET r == split_json(merged_result)
       IN IF r.ok
          THEN /\ resplit' = r.docs
               /\ mpc' = "resplit"
               /\ UNCHANGED fail_msg
          ELSE /\ fail_msg' = [by |-> "process_file", file |-> 0, exc |-> r.exc]
               /\ mpc' = "failed"
               /\ UNCHANGED resplit
    /\ UNCHANGED <<files, file_pos, json_processed_list, merged_result,
                   runVars, parserVars, aggVars, plotVars, stampVars>>

\* the documents the module can be given: single-file results of a parser
\* run, two-file results of an earlier merge, and either with one required
\* top-level field missing
InputDocs == SingleDocs \cup DoubleDocs \cup BrokenDocs


-----------------------------------------------------------------------------
(* ds389_repl_monitoring: DSLogParserFallback (ds389_log_parser.py) read by   *)
(* ReplicationLogAnalyzerFallback.parse_logs (ds389_logs_plot.py).            *)
(*                                                                          *)
(* Time is counted in ticks of half a second.  A timestamp token is         *)
(* [form, wall, off]: the wall-clock reading, the UTC offset written after  *)
(* it, and whether the token is well formed; an aware datetime is           *)
(* [wall, off], ordered and subtracted by its UTC instant wall - off.       *)

TicksPerSecond == 2

NoTime == [wall |-> 0, off |-> 0]

Instant(dt) == dt.wall - dt.off

\* parse_timestamp: REGEX_TIMESTAMP, MONTH_LOOKUP and fromisoformat.  A token
\* the regex rejects and a token fromisoformat rejects raise ValueError, an
\* unknown month name raises KeyError.
parse_timestamp(ts) ==
    CASE ts.form = "ok"       -> [ok |-> TRUE,  exc |-> "", dt |-> [wall |-> ts.wall, off |-> ts.off]]
      [] ts.form = "nomatch"  -> [ok |-> FALSE, exc |-> "ValueError", dt |-> NoTime]
      [] ts.form = "badday"   -> [ok |-> FALSE, exc |-> "ValueError", dt |-> NoTime]
      [] ts.form = "badmonth" -> [ok |-> FALSE, exc |-> "KeyError", dt |-> NoTime]

\* _ensure_timezone_aware of an aware datetime: astimezone(self.tz), the same
\* instant read in the parser's zone
ensure_timezone_aware(dt, tz) == [wall |-> Instant(dt) + tz, off |-> tz]

\* a range check that forgets the upper end
is_in_time_range_no_end(dt, conf) ==
    LET aware == ensure_timezone_aware(dt, conf.tz)
    IN ~(conf.has_start /\ Instant(aware) < conf.start_time)

\* _is_in_time_range, lines 181-190; conf.start_time and conf.end_time are the
\* instants of the aware datetimes __init__ keeps
is_in_time_range(dt, conf) ==
    LET aware == ensure_timezone_aware(dt, conf.tz)
    IN IF conf.has_start /\ Instant(aware) < conf.start_time THEN FALSE
       ELSE IF conf.has_end /\ Instant(aware) > conf.end_time THEN FALSE
       ELSE TRUE

\* _calculate_duration, lines 424-440: on ValueError the duration is 0.0, a
\* KeyError leaves the function
calculate_duration(start, end) ==
    LET st == parse_timestamp(start)
        et == parse_timestamp(end)
    IN IF st.ok /\ et.ok
       THEN [ok |-> TRUE, exc |-> "", val |-> Instant(et.dt) - Instant(st.dt)]
       ELSE IF ~st.ok /\ st.exc # "ValueError" THEN [ok |-> FALSE, exc |-> st.exc, val |-> 0]
       ELSE IF ~st.ok THEN [ok |-> TRUE, exc |-> "", val |-> 0]
       ELSE IF et.exc # "ValueError" THEN [ok |-> FALSE, exc |-> et.exc, val |-> 0]
       ELSE [ok |-> TRUE, exc |-> "", val |-> 0]

(* Distinguished names are sequences of RDNs; normalizeDN lowercases them   *)
(* and raises ValueError on a string ldap.explode_dn cannot decode.         *)

Lower(rdn) ==
    CASE rdn = "DC=Example" -> "dc=example"
      [] rdn = "DC=COM"     -> "dc=com"
      [] OTHER              -> rdn

NoDN == <<>>
BadDN == <<"=">>

normalizeDN(dn) ==
    IF dn = NoDN THEN [ok |-> TRUE, dn |-> NoDN]
    ELSE IF dn = BadDN THEN [ok |-> FALSE, dn |-> NoDN]
    ELSE [ok |-> TRUE, dn |-> [i \in 1..Len(dn) |-> Lower(dn[i])]]

EndsWith(dn, sfx) ==
    /\ Len(sfx) <= Len(dn)
    /\ \A i \in 1..Len(sfx) : dn[Len(dn) - Len(sfx) + i] = sfx[i]

\* the configured suffixes, as given to the module
ConfiguredSuffixes == {<<"dc=com">>, <<"DC=Example", "DC=COM">>}

\* _normalize_suffixes: normalized, longest first
normalize_suffixes ==
    LET S == {normalizeDN(x).dn : x \in ConfiguredSuffixes}
        RECURSIVE Sorted(_)
        Sorted(T) == IF T = {} THEN <<>>
                     ELSE LET m == CHOOSE x \in T : \A y \in T : Len(y) <= Len(x)
                          IN <<m>> \o Sorted(T \ {m})
    IN Sorted(S)

\* _match_suffix, lines 318-326: [ok, sfx], sfx = NoDN for None; not ok when
\* normalizeDN raises
match_suffix(dn) ==
    IF dn = NoDN THEN [ok |-> TRUE, sfx |-> NoDN]
    ELSE LET n == normalizeDN(dn)
             hits == {i \in 1..Len(normalize_suffixes) : EndsWith(n.dn, normalize_suffixes[i])}
         IN IF ~n.ok THEN [ok |-> FALSE, sfx |-> NoDN]
            ELSE IF hits = {} THEN [ok |-> TRUE, sfx |-> NoDN]
            ELSE [ok |-> TRUE,
                  sfx |-> normalize_suffixes[CHOOSE i \in hits : \A j \in hits : i <= j]]

(* A tokenized line (parse_line): timestamp token, the (conn, op) pair, the  *)
(* operation keyword, and the dn, csn and etime variables.  None is <<>>    *)
(* for an optional value, "" for a string.                                  *)

None == <<>>
Some(x) == <<x>>

NoPair == <<"", "">>
TerminalKeywords == {"RESULT", "ABANDON", "DISCONNECT"}

NoRecord ==
    [timestamp |-> NoTime, pair |-> NoPair, csn |-> "", suffix |-> NoDN,
     target_dn |-> NoDN, duration |-> 0, etime |-> None]

NotMade == [made |-> FALSE, has |-> FALSE, rec |-> NoRecord]

\* _create_record with result and op_data (the pair was closed by a terminal
\* keyword), lines 355-362 and 380-407: [made, has, rec]; made when the
\* record dict of line 388 was built, has when it was returned
create_record_active(result, op_data, conf) ==
    LET ts  == parse_timestamp(result.ts)
        dur == calculate_duration(op_data.start_time, result.ts)
    IN IF ~ts.ok \/ ~dur.ok THEN NotMade
       ELSE [made |-> TRUE,
             has |-> is_in_time_range(ts.dt, conf),
             rec |-> [timestamp |-> ts.dt, pair |-> result.pair, csn |-> result.csn,
                      suffix |-> op_data.suffix, target_dn |-> op_data.target_dn,
                      duration |-> dur.val, etime |-> result.etime]]

\* _create_record with op_data alone (end-of-file flush), lines 363-375
create_record_remaining(op_data, conf) ==
    LET ts  == parse_timestamp(op_data.last_time)
        st  == parse_timestamp(op_data.start_time)
    IN IF ~ts.ok THEN NotMade
       ELSE IF ~st.ok /\ st.exc # "ValueError" THEN NotMade
       ELSE [made |-> TRUE,
             has |-> is_in_time_range(ts.dt, conf),
             rec |-> [timestamp |-> ts.dt, pair |-> op_data.pair,
                      csn |-> IF op_data.has_csn THEN op_data.csn ELSE "",
                      suffix |-> op_data.suffix, target_dn |-> op_data.target_dn,
                      duration |-> IF st.ok THEN Instant(ts.dt) - Instant(st.dt) ELSE 0,
                      etime |-> None]]

\* a membership test that takes any open operation for the pair asked for
PendingAtAny(pending, pair) == IF pending = <<>> THEN {} ELSE {1}

\* positions of a pair in the pending_ops dict (at most one)
PendingAt(pending, pair) == {i \in 1..Len(pending) : pending[i].pair = pair}

\* a pop that removes the oldest entry of the dict, whatever the key
RemoveOldest(seq, i) == Tail(seq)

\* self.pending_ops.pop(conn_op)
RemoveAt(seq, i) == SubSeq(seq, 1, i - 1) \o SubSeq(seq, i + 1, Len(seq))

\* _process_operation, lines 197-239: [pending, made, has, rec, raised]
process_operation(result, pending, conf) ==
    IF result.pair = NoPair
    THEN [pending |-> pending, made |-> FALSE, has |-> FALSE, rec |-> NoRecord,
          raised |-> FALSE]
    ELSE LET at == PendingAt(pending, result.pair)
         IN IF result.kw \in TerminalKeywords
            THEN IF at # {}
                 THEN LET i == CHOOSE x \in at : TRUE
                          r == create_record_active(result, pending[i], conf)
                      IN [pending |-> RemoveAt(pending, i), made |-> r.made, has |-> r.has,
                          rec |-> r.rec, raised |-> FALSE]
                 ELSE [pending |-> pending, made |-> FALSE, has |-> FALSE,
                       rec |-> NoRecord, raised |-> FALSE]
            ELSE LET opened ==
                        IF at = {}
                        THEN Append(pending,
                                    [pair |-> result.pair, start_time |-> result.ts,
                                     last_time |-> result.ts, suffix |-> NoDN,
                                     target_dn |-> NoDN, has_csn |-> FALSE, csn |-> ""])
                        ELSE [pending EXCEPT ![CHOOSE x \in at : TRUE].last_time = result.ts]
                     i == CHOOSE x \in PendingAt(opened, result.pair) : TRUE
                     m == match_suffix(result.dn)
                     withdn ==
                        IF m.ok /\ m.sfx # NoDN
                        THEN [opened EXCEPT ![i].suffix = m.sfx, ![i].target_dn = result.dn]
                        ELSE opened
                     withcsn ==
                        IF result.csn # ""
                        THEN [withdn EXCEPT ![i].has_csn = TRUE, ![i].csn = result.csn]
                        ELSE withdn
                 IN IF ~m.ok
                    THEN [pending |-> opened, made |-> FALSE, has |-> FALSE,
                          rec |-> NoRecord, raised |-> TRUE]
                    ELSE [pending |-> withcsn, made |-> FALSE, has |-> FALSE,
                          rec |-> NoRecord, raised |-> FALSE]

\* a batch processing that yields all but the last record of the batch
RECURSIVE process_batch_short(_, _)
process_batch_short(batch, conf) ==
    IF Len(batch) <= 1 THEN <<>>
    ELSE (IF is_in_time_range(Head(batch).timestamp, conf) THEN <<Head(batch)>> ELSE <<>>)
         \o process_batch_short(Tail(batch), conf)

\* _process_batch, lines 328-348: the records it yields
RECURSIVE process_batch(_, _)
process_batch(batch, conf) ==
    IF batch = <<>> THEN <<>>
    ELSE (IF is_in_time_range(Head(batch).timestamp, conf) THEN <<Head(batch)>> ELSE <<>>)
         \o process_batch(Tail(batch), conf)

\* _process_remaining_ops, lines 409-422: the records it yields, in the
\* order of the dict
RECURSIVE process_remaining_ops(_, _)
process_remaining_ops(pending, conf) ==
    IF pending = <<>> THEN <<>>
    ELSE LET r == create_record_remaining(Head(pending), conf)
         IN (IF Head(pending).has_csn /\ r.has THEN <<r.rec>> ELSE <<>>)
            \o process_remaining_ops(Tail(pending), conf)

\* the record dicts _create_record builds while _process_remaining_ops runs
RECURSIVE remaining_made(_, _)
remaining_made(pending, conf) ==
    IF pending = <<>> THEN <<>>
    ELSE LET r == create_record_remaining(Head(pending), conf)
         IN (IF Head(pending).has_csn /\ r.made THEN <<r.rec>> ELSE <<>>)
            \o remaining_made(Tail(pending), conf)

\* a cleanup that leaves both tables as they are
cleanup_resources_noop(pending, batch) == [pending_ops |-> pending, current_batch |-> batch]

\* _cleanup_resources, lines 192-195
cleanup_resources(pending, batch) == [pending_ops |-> <<>>, current_batch |-> <<>>]

(* ReplicationLogAnalyzerFallback: the change-id map is a dict in insertion  *)
(* order, the sequence of its [csn, map] items; a replica map is the        *)
(* sequence of [k, e] items of the codec above.                             *)

CsnKeys(csn_map) == {csn_map[i].csn : i \in 1..Len(csn_map)}

\* csns[K]
MapOf(csn_map, K) == csn_map[CHOOSE i \in 1..Len(csn_map) : csn_map[i].csn = K].map

\* an insertion that adds an item even when the key is present
PutEntryAppend(server_map, ix, entry) == Append(server_map, [k |-> ix, e |-> entry])

\* self.csns[csn][ix] = {...}: an existing key keeps its place in the dict
PutEntry(server_map, ix, entry) ==
    IF \E i \in 1..Len(server_map) : server_map[i].k = ix
    THEN [i \in 1..Len(server_map) |->
             IF server_map[i].k = ix THEN [k |-> ix, e |-> entry] ELSE server_map[i]]
    ELSE Append(server_map, [k |-> ix, e |-> entry])

\* a consumer that takes the wall-clock reading for the instant
ConsumeWallClock(agg, record, i) ==
    IF record.csn = "" \/ record.suffix = NoDN THEN agg
    ELSE LET udt == record.timestamp.wall
             first == agg.start_udt = None \/ udt < agg.start_udt[1]
             known == record.csn \in CsnKeys(agg.csns)
             opened == IF known THEN agg.csns
                       ELSE Append(agg.csns, [csn |-> record.csn, map |-> <<>>])
             entry == [logtime |-> udt, etime |-> record.etime, server_name |-> i,
                       suffix |-> record.suffix, target_dn |-> record.target_dn,
                       duration |-> record.duration]
         IN [csns |-> [p \in 1..Len(opened) |->
                          IF opened[p].csn = record.csn
                          THEN [csn |-> record.csn, map |-> PutEntry(opened[p].map, i, entry)]
                          ELSE opened[p]],
             start_udt |-> IF first THEN Some(udt) ELSE agg.start_udt,
             start_dt  |-> IF first THEN Some(record.timestamp) ELSE agg.start_dt]

\* a consumer in which a later record at the same earliest instant takes
\* over start_dt
ConsumeLatestTie(agg, record, i) ==
    IF record.csn = "" \/ record.suffix = NoDN THEN agg
    ELSE LET udt == Instant(record.timestamp)
             first == agg.start_udt = None \/ udt <= agg.start_udt[1]
             known == record.csn \in CsnKeys(agg.csns)
             opened == IF known THEN agg.csns
                       ELSE Append(agg.csns, [csn |-> record.csn, map |-> <<>>])
             entry == [logtime |-> udt, etime |-> record.etime, server_name |-> i,
                       suffix |-> record.suffix, target_dn |-> record.target_dn,
                       duration |-> record.duration]
         IN [csns |-> [p \in 1..Len(opened) |->
                          IF opened[p].csn = record.csn
                          THEN [csn |-> record.csn, map |-> PutEntry(opened[p].map, i, entry)]
                          ELSE opened[p]],
             start_udt |-> IF first THEN Some(udt) ELSE agg.start_udt,
             start_dt  |-> IF first THEN Some(record.timestamp) ELSE agg.start_dt]

\* parse_logs, lines 440-466: the loop body run for one yielded record
Consume(agg, record, i) ==
    IF record.csn = "" \/ record.suffix = NoDN THEN agg
    ELSE LET udt == Instant(record.timestamp)
             first == agg.start_udt = None \/ udt < agg.start_udt[1]
             known == record.csn \in CsnKeys(agg.csns)
             opened == IF known THEN agg.csns
                       ELSE Append(agg.csns, [csn |-> record.csn, map |-> <<>>])
             entry == [logtime |-> udt, etime |-> record.etime, server_name |-> i,
                       suffix |-> record.suffix, target_dn |-> record.target_dn,
                       duration |-> record.duration]
         IN [csns |-> [p \in 1..Len(opened) |->
                          IF opened[p].csn = record.csn
                          THEN [csn |-> record.csn, map |-> PutEntry(opened[p].map, i, entry)]
                          ELSE opened[p]],
             start_udt |-> IF first THEN Some(udt) ELSE agg.start_udt,
             start_dt  |-> IF first THEN Some(record.timestamp) ELSE agg.start_dt]

RECURSIVE ConsumeAll(_, _, _)
ConsumeAll(agg, records, i) ==
    IF records = <<>> THEN agg
    ELSE ConsumeAll(Consume(agg, Head(records), i), Tail(records), i)

Logtimes(server_map) == {server_map[i].e.logtime : i \in 1..Len(server_map)}

Max(S) == CHOOSE x \in S : \A y \in S : y <= x
Min(S) == CHOOSE x \in S : \A y \in S : x <= y

\* a filter that keeps a change whose lag equals the threshold
should_include_record_lag_at_least(server_map, conf) ==
    IF conf.only_fully_replicated /\ Len(server_map) # conf.num_dirs
    THEN [ok |-> TRUE, keep |-> FALSE]
    ELSE IF conf.only_not_replicated /\ Len(server_map) = conf.num_dirs
    THEN [ok |-> TRUE, keep |-> FALSE]
    ELSE IF conf.lag_time_lowest # None /\ server_map = <<>>
    THEN [ok |-> TRUE, keep |-> FALSE]
    ELSE IF /\ conf.lag_time_lowest # None
            /\ Max(Logtimes(server_map)) - Min(Logtimes(server_map)) < conf.lag_time_lowest[1]
    THEN [ok |-> TRUE, keep |-> FALSE]
    ELSE IF conf.etime_lowest = None THEN [ok |-> TRUE, keep |-> TRUE]
    ELSE LET bad == {i \in 1..Len(server_map) :
                        \/ server_map[i].e.etime = None
                        \/ server_map[i].e.etime[1] <= conf.etime_lowest[1]}
         IN IF bad = {} THEN [ok |-> TRUE, keep |-> TRUE]
            ELSE IF server_map[Min(bad)].e.etime = None THEN [ok |-> FALSE, keep |-> FALSE]
            ELSE [ok |-> TRUE, keep |-> FALSE]

\* a filter in which fully-replicated-only takes precedence over
\* not-replicated-only
should_include_record_precedence(server_map, conf) ==
    IF conf.only_fully_replicated /\ Len(server_map) # conf.num_dirs
    THEN [ok |-> TRUE, keep |-> FALSE]
    ELSE IF /\ ~conf.only_fully_replicated
            /\ conf.only_not_replicated /\ Len(server_map) = conf.num_dirs
    THEN [ok |-> TRUE, keep |-> FALSE]
    ELSE IF conf.lag_time_lowest # None /\ server_map = <<>>
    THEN [ok |-> TRUE, keep |-> FALSE]
    ELSE IF /\ conf.lag_time_lowest # None
            /\ Max(Logtimes(server_map)) - Min(Logtimes(server_map)) <= conf.lag_time_lowest[1]
    THEN [ok |-> TRUE, keep |-> FALSE]
    ELSE IF conf.etime_lowest = None THEN [ok |-> TRUE, keep |-> TRUE]
    ELSE LET bad == {i \in 1..Len(server_map) :
                        \/ server_map[i].e.etime = None
                        \/ server_map[i].e.etime[1] <= conf.etime_lowest[1]}
         IN IF bad = {} THEN [ok |-> TRUE, keep |-> TRUE]
            ELSE IF server_map[Min(bad)].e.etime = None THEN [ok |-> FALSE, keep |-> FALSE]
            ELSE [ok |-> TRUE, keep |-> FALSE]

\* _should_include_record, lines 306-335: [ok, keep]; not ok when float() of
\* an absent etime raises TypeError
should_include_record(server_map, conf) ==
    IF conf.only_fully_replicated /\ Len(server_map) # conf.num_dirs
    THEN [ok |-> TRUE, keep |-> FALSE]
    ELSE IF conf.only_not_replicated /\ Len(server_map) = conf.num_dirs
    THEN [ok |-> TRUE, keep |-> FALSE]
    ELSE IF conf.lag_time_lowest # None /\ server_map = <<>>
    THEN [ok |-> TRUE, keep |-> FALSE]
    ELSE IF /\ conf.lag_time_lowest # None
            /\ Max(Logtimes(server_map)) - Min(Logtimes(server_map)) <= conf.lag_time_lowest[1]
    THEN [ok |-> TRUE, keep |-> FALSE]
    ELSE IF conf.etime_lowest = None THEN [ok |-> TRUE, keep |-> TRUE]
    ELSE LET bad == {i \in 1..Len(server_map) :
                        \/ server_map[i].e.etime = None
                        \/ server_map[i].e.etime[1] <= conf.etime_lowest[1]}
         IN IF bad = {} THEN [ok |-> TRUE, keep |-> TRUE]
            ELSE IF server_map[Min(bad)].e.etime = None THEN [ok |-> FALSE, keep |-> FALSE]
            ELSE [ok |-> TRUE, keep |-> FALSE]

\* the arrivals left in the order of the replica map
ArrivalsAsInserted(arrivals) == arrivals

\* a sort that puts the later of two equal logtimes first
RECURSIVE SortTiesReversed(_)
SortTiesReversed(arrivals) ==
    IF arrivals = <<>> THEN <<>>
    ELSE LET rest == SortTiesReversed(SubSeq(arrivals, 1, Len(arrivals) - 1))
             x == arrivals[Len(arrivals)]
             n == Cardinality({i \in 1..Len(rest) : rest[i].logtime < x.logtime})
         IN SubSeq(rest, 1, n) \o <<x>> \o SubSeq(rest, n + 1, Len(rest))

\* list.sort(key=logtime): stable insertion into an ascending list
RECURSIVE SortByLogtime(_)
SortByLogtime(arrivals) ==
    IF arrivals = <<>> THEN <<>>
    ELSE LET rest == SortByLogtime(SubSeq(arrivals, 1, Len(arrivals) - 1))
             x == arrivals[Len(arrivals)]
             before == {i \in 1..Len(rest) : rest[i].logtime <= x.logtime}
             n == Cardinality(before)
         IN SubSeq(rest, 1, n) \o <<x>> \o SubSeq(rest, n + 1, Len(rest))

\* a hop computation that stops one arrival early
compute_hop_lags_short(server_map) ==
    LET arrivals == SortByLogtime([i \in 1..Len(server_map) |->
                        [server_name |-> server_map[i].e.server_name,
                         logtime |-> server_map[i].e.logtime,
                         suffix |-> server_map[i].e.suffix,
                         target_dn |-> server_map[i].e.target_dn]])
    IN [i \in 1..(Len(arrivals) - 2) |->
          [supplier |-> arrivals[i].server_name,
           consumer |-> arrivals[i + 1].server_name,
           hop_lag |-> arrivals[i + 1].logtime - arrivals[i].logtime,
           arrival_consumer |-> arrivals[i + 1].logtime,
           suffix |-> arrivals[i + 1].suffix,
           target_dn |-> arrivals[i + 1].target_dn]]

\* _compute_hop_lags, lines 385-417
compute_hop_lags(server_map) ==
    LET arrivals == SortByLogtime([i \in 1..Len(server_map) |->
                        [server_name |-> server_map[i].e.server_name,
                         logtime |-> server_map[i].e.logtime,
                         suffix |-> server_map[i].e.suffix,
                         target_dn |-> server_map[i].e.target_dn]])
    IN [i \in 1..(Len(arrivals) - 1) |->
          [supplier |-> arrivals[i].server_name,
           consumer |-> arrivals[i + 1].server_name,
           hop_lag |-> arrivals[i + 1].logtime - arrivals[i].logtime,
           arrival_consumer |-> arrivals[i + 1].logtime,
           suffix |-> arrivals[i + 1].suffix,
           target_dn |-> arrivals[i + 1].target_dn]]

\* the filters of parse_logs, lines 468-477, run over the dict in its order:
\* ok is FALSE when _should_include_record raised; hops holds the hop-lag
\* lists attached up to then
RECURSIVE apply_filters(_, _)
apply_filters(csn_map, conf) ==
    IF csn_map = <<>> THEN [ok |-> TRUE, filtered |-> <<>>, hops |-> <<>>]
    ELSE LET item == Head(csn_map)
             inc == should_include_record(item.map, conf)
         IN IF ~inc.ok THEN [ok |-> FALSE, filtered |-> <<>>, hops |-> <<>>]
            ELSE LET rest == apply_filters(Tail(csn_map), conf)
                 IN [ok |-> rest.ok,
                     filtered |-> (IF inc.keep THEN <<item>> ELSE <<>>) \o rest.filtered,
                     hops |-> (IF inc.keep
                               THEN <<[csn |-> item.csn, hops |-> compute_hop_lags(item.map)]>>
                               ELSE <<>>) \o rest.hops]

\* build_result, lines 479-495: str(start_dt) shows the wall-clock reading
\* and the offset
build_result(agg) ==
    IF agg.start_dt = None
    THEN [ok |-> FALSE, start_time |-> NoTime, utc_start_time |-> 0, utc_offset |-> 0,
          lag |-> <<>>]
    ELSE [ok |-> TRUE, start_time |-> agg.start_dt[1], utc_start_time |-> agg.start_udt[1],
          utc_offset |-> agg.start_dt[1].off, lag |-> agg.csns]

-----------------------------------------------------------------------------
(* The run of parse_logs: one parser per log file, each line handled in one *)
(* step, the records parse_file yields consumed as they are yielded.        *)

MaxFiles == 2
MaxLines == 3
BatchSize == 2

\* the zone the analyzer is configured with (utc_offset), in ticks
ZoneOffset == 1

Config(has_start, start_time, has_end, end_time) ==
    [tz |-> ZoneOffset,
     has_start |-> has_start, start_time |-> start_time,
     has_end |-> has_end, end_time |-> end_time,
     only_fully_replicated |-> FALSE, only_not_replicated |-> FALSE,
     num_dirs |-> MaxFiles, lag_time_lowest |-> None, etime_lowest |-> None,
     batch_size |-> BatchSize]

DefaultConfig == Config(FALSE, 0, FALSE, 0)

\* no time range, and the range from instant 1 to instant 2
Configs == {DefaultConfig, Config(TRUE, 1, TRUE, 2)}

Stamp(wall, off) == [form |-> "ok", wall |-> wall, off |-> off]
BadStamp(form) == [form |-> form, wall |-> 0, off |-> 0]

ConnOp1 == <<"7", "1">>
ConnOp2 == <<"7", "2">>

EntryDN == <<"uid=a", "DC=Example", "DC=COM">>

\* an entry under the monitored suffix dc=com only
OtherDN == <<"cn=b", "DC=COM">>

Line(ts, pair, kw, dn, csn, etime) ==
    [ts |-> ts, pair |-> pair, kw |-> kw, dn |-> dn, csn |-> csn, etime |-> etime]

\* the lines a log file is made of: a line without a timestamp, one without
\* conn and op; operation lines with a monitored dn, with a dn that cannot be
\* decoded, with a month that is none, with a change id; result lines at
\* instants 0 to 3, written in two zones; an abandon
Lines ==
    { Line(BadStamp("nomatch"), NoPair, "", NoDN, "", None),
      Line(Stamp(1, 0), NoPair, "MOD", EntryDN, "", None),
      Line(Stamp(1, 0), ConnOp1, "MOD", EntryDN, "", None),
      Line(Stamp(2, 1), ConnOp1, "MOD", BadDN, "", None),
      Line(BadStamp("badmonth"), ConnOp1, "MOD", EntryDN, "", None),
      Line(Stamp(2, 0), ConnOp2, "MOD", EntryDN, "K2", None),
      Line(Stamp(3, 0), ConnOp2, "MOD", NoDN, "K2", None),
      Line(Stamp(1, 1), ConnOp1, "RESULT", NoDN, "K1", Some(2)),
      Line(Stamp(2, 1), ConnOp1, "RESULT", NoDN, "K1", Some(2)),
      Line(Stamp(2, 0), ConnOp1, "RESULT", NoDN, "K1", Some(2)),
      Line(Stamp(4, 1), ConnOp1, "RESULT", NoDN, "K1", Some(2)),
      Line(Stamp(2, 0), ConnOp2, "ABANDON", NoDN, "", None) }

\* parse_line, lines 277-310: None for a line REGEX_TIMESTAMP does not match
parse_line(line) == [has |-> line.ts.form # "nomatch", result |-> line]

Aggregator == [csns |-> csns, start_udt |-> start_udt, start_dt |-> start_dt]

\* the for loop of parse_logs run over the records one drain yields
Deliver(records) ==
    LET agg == ConsumeAll(Aggregator, records, idx)
    IN /\ delivered' = delivered \o records
       /\ csns' = agg.csns
       /\ start_udt' = agg.start_udt
       /\ start_dt' = agg.start_dt

\* parse_logs opens the next log file: DSLogParser.__init__.  The first file
\* is server 0's; a later one belongs to the same server or to the next.
StartFile ==
    /\ pc = "collect"
    /\ nfiles < MaxFiles
    /\ idx' \in (IF nfiles = 0 THEN {0} ELSE {idx, idx + 1})
    /\ nfiles' = nfiles + 1
    /\ pc' = "reading"
    /\ lineno' = 0
    /\ pending_ops' = <<>>
    /\ current_batch' = <<>>
    /\ built' = <<>>
    /\ delivered' = <<>>
    /\ UNCHANGED <<cfg, server_data, last_end, aggVars, mergeVars, plotVars, stampVars>>

\* one turn of the loop of parse_file, lines 245-263, with the consumer's
\* loop body for whatever it yields; a line _process_operation raises on is
\* logged and the loop continues
ParseLine(line) ==
    /\ pc = "reading"
    /\ lineno < MaxLines
    /\ lineno' = lineno + 1
    /\ LET parsed == parse_line(line)
           r == process_operation(parsed.result, pending_ops, cfg)
       IN IF ~parsed.has
          THEN UNCHANGED <<pending_ops, current_batch, built, delivered, aggVars>>
          ELSE /\ pending_ops' = r.pending
               /\ built' = IF r.made THEN Append(built, r.rec) ELSE built
               /\ IF r.has
                  THEN LET batch == Append(current_batch, r.rec)
                       IN IF Len(batch) >= cfg.batch_size
                          THEN /\ current_batch' = <<>>
                               /\ Deliver(process_batch(batch, cfg))
                               /\ UNCHANGED hop_lags
                          ELSE /\ current_batch' = batch
                               /\ UNCHANGED <<delivered, aggVars>>
                  ELSE UNCHANGED <<current_batch, delivered, aggVars>>
    /\ UNCHANGED <<runVars, last_end, mergeVars, plotVars, stampVars>>

\* the file is exhausted, lines 265-270 and 275: the final batch, the
\* pending operations, the cleanup
EndOfFile ==
    /\ pc = "reading"
    /\ LET cleaned == cleanup_resources(<<>>, <<>>)
       IN /\ Deliver(process_batch(current_batch, cfg)
                     \o process_remaining_ops(pending_ops, cfg))
          /\ built' = built \o remaining_made(pending_ops, cfg)
          /\ pending_ops' = cleaned.pending_ops
          /\ current_batch' = cleaned.current_batch
    /\ pc' = "collect"
    /\ last_end' = "eof"
    /\ UNCHANGED <<cfg, idx, nfiles, server_data, lineno, hop_lags, mergeVars, plotVars, stampVars>>

\* open or a read fails, lines 272-275: the cleanup runs, the error leaves
\* parse_file and parse_logs
ReadFailure ==
    /\ pc = "reading"
    /\ LET cleaned == cleanup_resources(pending_ops, current_batch)
       IN /\ pending_ops' = cleaned.pending_ops
          /\ current_batch' = cleaned.current_batch
    /\ pc' = "raised"
    /\ last_end' = "error"
    /\ UNCHANGED <<cfg, idx, nfiles, server_data, lineno, built, delivered, aggVars, mergeVars, plotVars, stampVars>>

\* every file is read: the filters and the hop lags, lines 468-477; with no
\* file at all parse_logs raises at line 425
Finish ==
    /\ pc = "collect"
    /\ IF nfiles = 0
       THEN /\ pc' = "raised"
            /\ UNCHANGED <<csns, hop_lags>>
       ELSE LET f == apply_filters(csns, cfg)
            IN /\ pc' = IF f.ok THEN "done" ELSE "raised"
               /\ csns' = IF f.ok THEN f.filtered ELSE csns
               /\ hop_lags' = f.hops
    /\ UNCHANGED <<cfg, idx, nfiles, server_data, start_udt, start_dt, parserVars, mergeVars, plotVars, stampVars>>

\* the analyzer as its constructor leaves it, lines 272-304
InitAnalyzer(conf, data) ==
    /\ cfg = conf
    /\ pc = "collect"
    /\ idx = 0
    /\ nfiles = 0
    /\ server_data = data
    /\ lineno = 0
    /\ pending_ops = <<>>
    /\ current_batch = <<>>
    /\ built = <<>>
    /\ delivered = <<>>
    /\ last_end = ""
    /\ csns = <<>>
    /\ start_udt = None
    /\ start_dt = None
    /\ hop_lags = <<>>

ParserIdle == InitAnalyzer(DefaultConfig, <<>>)

\* no timestamp is given to parse_timestamp
StampIdle ==
    /\ frac = <<>>
    /\ micro = <<>>

\* the plot module of the older role before it is run
NoParams == [fully_replicated |-> FALSE, not_replicated |-> FALSE,
             lag_time |-> None, etime |-> None, index |-> None]

PlotIdle ==
    /\ module_params = NoParams
    /\ json_dict = [log_files |-> <<>>, lag |-> <<>>]
    /\ lag_infos = <<>>
    /\ plot_pc = "load"
    /\ StampIdle

MergeIdle ==
    /\ files = <<>>
    /\ mpc = "split"
    /\ file_pos = 0
    /\ json_processed_list = <<>>
    /\ merged_result = NoDoc
    /\ resplit = <<>>
    /\ fail_msg = NoFail
    /\ PlotIdle

Init ==
    /\ \E conf \in Configs : InitAnalyzer(conf, <<>>)
    /\ MergeIdle

Next ==
    \/ StartFile
    \/ \E line \in Lines : ParseLine(line)
    \/ EndOfFile
    \/ ReadFailure
    \/ Finish

Spec == Init /\ [][Next]_vars

-----------------------------------------------------------------------------
(* The same run over log files whose content is given: server_data lists,   *)
(* in the order they are read, the server index and the lines of each file. *)

ScriptedStart ==
    /\ nfiles < Len(server_data)
    /\ StartFile
    /\ idx' = server_data[nfiles + 1].idx

ScriptedLine ==
    /\ pc = "reading"
    /\ lineno < Len(server_data[nfiles].lines)
    /\ ParseLine(server_data[nfiles].lines[lineno + 1])

ScriptedEOF ==
    /\ pc = "reading"
    /\ lineno = Len(server_data[nfiles].lines)
    /\ EndOfFile

ScriptedFinish ==
    /\ nfiles = Len(server_data)
    /\ Finish

\* Two replicas log the change ChangeK, replica 1 three and a half seconds
\* after replica 0.  Either each log holds the operation line (with the dn)
\* followed by the result line (with the change id and the etime), or it
\* holds one line that carries all of them.
ChangeK == "K1"

Lag35 == (7 * TicksPerSecond) \div 2

OpLine(ts) == Line(ts, ConnOp1, "MOD", EntryDN, "", None)
ResultLine(ts, etime) == Line(ts, ConnOp1, "RESULT", NoDN, ChangeK, Some(etime))
LoneLine(ts, etime) == Line(ts, ConnOp1, "RESULT", EntryDN, ChangeK, Some(etime))

ReplicaLog(T, off, lead, paired, etime) ==
    IF paired
    THEN <<OpLine(Stamp(T - lead + off, off)), ResultLine(Stamp(T + off, off), etime)>>
    ELSE <<LoneLine(Stamp(T + off, off), etime)>>

Scenario(T, off0, off1, lead, paired) ==
    <<[idx |-> 0, lines |-> ReplicaLog(T, off0, lead, paired, 2)],
      [idx |-> 1, lines |-> ReplicaLog(T + Lag35, off1, lead, paired, 1)]>>

Scenarios ==
    {Scenario(T, off0, off1, lead, paired) :
        T \in {1, 2}, off0 \in {0, 1}, off1 \in {0, 1}, lead \in {0, 1}, paired \in BOOLEAN}

\* lag-time-lowest 3 and 4 seconds
E2EConfigs ==
    {[DefaultConfig EXCEPT !.lag_time_lowest = Some(3 * TicksPerSecond)],
     [DefaultConfig EXCEPT !.lag_time_lowest = Some(4 * TicksPerSecond)]}

InitE2E ==
    /\ \E conf \in E2EConfigs : \E data \in Scenarios : InitAnalyzer(conf, data)
    /\ MergeIdle

NextE2E ==
    \/ ScriptedStart
    \/ ScriptedLine
    \/ ScriptedEOF
    \/ ScriptedFinish

SpecE2E == InitE2E /\ [][NextE2E]_vars

-----------------------------------------------------------------------------
(* The same run with the parser's batch_size from 1 to BatchSize, over log  *)
(* files in which operations are closed inside and outside a time range.    *)

\* operation 1 opened (once by a line whose timestamp matches the regex and
\* names day 32), its RESULT inside the range (instant 2) and after it
\* (instant 3); operation 2 opened, its ABANDON inside the range
BatchLines ==
    { Line(Stamp(1, 0), ConnOp1, "MOD", EntryDN, "", None),
      Line(BadStamp("badday"), ConnOp1, "MOD", EntryDN, "", None),
      Line(Stamp(2, 0), ConnOp1, "RESULT", NoDN, "K1", Some(2)),
      Line(Stamp(4, 1), ConnOp1, "RESULT", NoDN, "K1", Some(2)),
      Line(Stamp(2, 0), ConnOp2, "MOD", EntryDN, "K2", None),
      Line(Stamp(2, 0), ConnOp2, "ABANDON", NoDN, "K2", None) }

InitBatch ==
    /\ \E conf \in Configs : \E b \in 1..BatchSize :
          InitAnalyzer([conf EXCEPT !.batch_size = b], <<>>)
    /\ MergeIdle

NextBatch ==
    \/ StartFile
    \/ \E line \in BatchLines : ParseLine(line)
    \/ EndOfFile
    \/ ReadFailure
    \/ Finish

SpecBatch == InitBatch /\ [][NextBatch]_vars

-----------------------------------------------------------------------------
(* The same run over log files made of the lines of two operations: what   *)
(* pending_ops accumulates for a (conn, op) pair and what becomes of it.    *)

\* operation 1: a line with a monitored dn, one with a dn under another
\* monitored suffix, one with a change id and no dn, a RESULT without a
\* change id and one with it; operation 2: a line with a change id and no
\* dn, one whose dn cannot be decoded, an ABANDON
PairLines ==
    { Line(Stamp(1, 0), ConnOp1, "MOD", EntryDN, "", None),
      Line(Stamp(2, 0), ConnOp1, "MOD", OtherDN, "", None),
      Line(Stamp(2, 0), ConnOp1, "MOD", NoDN, "K1", None),
      Line(Stamp(3, 0), ConnOp1, "RESULT", NoDN, "", Some(2)),
      Line(Stamp(3, 0), ConnOp1, "RESULT", NoDN, "K1", Some(2)),
      Line(Stamp(1, 0), ConnOp2, "MOD", NoDN, "K2", None),
      Line(Stamp(2, 0), ConnOp2, "MOD", BadDN, "", None),
      Line(Stamp(2, 0), ConnOp2, "ABANDON", NoDN, "", None) }

\* no time range is configured
InitPairs ==
    /\ InitAnalyzer(DefaultConfig, <<>>)
    /\ MergeIdle

NextPairs ==
    \/ StartFile
    \/ \E line \in PairLines : ParseLine(line)
    \/ EndOfFile
    \/ ReadFailure
    \/ Finish

SpecPairs == InitPairs /\ [][NextPairs]_vars

-----------------------------------------------------------------------------
(* parse_logs with each file given by the records its parse_file yields:    *)
(* server_data lists, in the order they are read, the server index and the  *)
(* yielded records of each file.                                            *)

Rec(K, wall, off) ==
    [timestamp |-> [wall |-> wall, off |-> off], pair |-> ConnOp1, csn |-> K,
     suffix |-> <<"dc=example", "dc=com">>, target_dn |-> EntryDN, duration |-> 0,
     etime |-> Some(1)]

YieldedRecords ==
    {Rec(K, st.wall, st.off) :
        K \in CSNs, st \in {[wall |-> 1, off |-> 0], [wall |-> 2, off |-> 1],
                            [wall |-> 2, off |-> 0]}}

Sources ==
    {[idx |-> i, records |-> rs] :
        i \in {0, 1}, rs \in {<<>>} \cup {<<r>> : r \in YieldedRecords}}

ConsumeFile ==
    /\ pc = "collect"
    /\ nfiles < Len(server_data)
    /\ LET src == server_data[nfiles + 1]
           agg == ConsumeAll(Aggregator, src.records, src.idx)
       IN /\ idx' = src.idx
          /\ csns' = agg.csns
          /\ start_udt' = agg.start_udt
          /\ start_dt' = agg.start_dt
    /\ nfiles' = nfiles + 1
    /\ UNCHANGED <<cfg, pc, server_data, hop_lags, parserVars, mergeVars, plotVars, stampVars>>

InitOrder ==
    /\ \E a \in Sources : \E b \in Sources : InitAnalyzer(DefaultConfig, <<a, b>>)
    /\ MergeIdle

NextOrder ==
    \/ ConsumeFile
    \/ ScriptedFinish

SpecOrder == InitOrder /\ [][NextOrder]_vars

-----------------------------------------------------------------------------
(* parse_logs with its filters set: the files are given by the records they *)
(* yield, as above; the log directories are conf.num_dirs in number and the *)
(* files are read directory by directory.                                   *)

FilterRec(K, wall, etime) == [Rec(K, wall, 0) EXCEPT !.etime = etime]

\* records of K1 at three instants, with no etime, etime 1 and etime 3, and
\* one record of K2
FilterRecords ==
    {FilterRec("K1", w, e) : w \in 1..3, e \in {None, Some(1), Some(3)}}
        \cup {FilterRec("K2", 2, Some(3))}

FilterSources(conf) ==
    {[idx |-> i, records |-> rs] :
        i \in 0..(conf.num_dirs - 1), rs \in {<<>>} \cup {<<r>> : r \in FilterRecords}}

\* the thresholds are one tick: no threshold, lag-time-lowest, etime-lowest
FilterConfigs ==
    {[DefaultConfig EXCEPT !.only_fully_replicated = f, !.only_not_replicated = n,
                           !.num_dirs = d, !.lag_time_lowest = t[1], !.etime_lowest = t[2]] :
        f \in BOOLEAN, n \in BOOLEAN, d \in 1..MaxFiles,
        t \in {<<None, None>>, <<Some(1), None>>, <<None, Some(1)>>}}

InitFilter ==
    /\ \E conf \in FilterConfigs : \E data \in [1..MaxFiles -> FilterSources(conf)] :
          /\ \A i \in 1..(MaxFiles - 1) : data[i].idx <= data[i + 1].idx
          /\ InitAnalyzer(conf, data)
    /\ MergeIdle

NextFilter ==
    \/ ConsumeFile
    \/ ScriptedFinish

SpecFilter == InitFilter /\ [][NextFilter]_vars

-----------------------------------------------------------------------------
(* ds389_replication_monitoring/library/ds389_log_parser.py: DSLogParser    *)
(* and ReplLag.Parser, the parser the merge module's inputs come from.      *)
(* A line is [ts, bracket, csn, etime]: bracket tells whether the line has  *)
(* a ']' with text after it.                                                *)

OldLine(ts, bracket, csn, etime) ==
    [ts |-> ts, bracket |-> bracket, csn |-> csn, etime |-> etime]

OldLines ==
    { OldLine(BadStamp("nomatch"), FALSE, "", None),
      OldLine(Stamp(1, 0), TRUE, "", None),
      OldLine(Stamp(1, 0), TRUE, "K1", Some(2)),
      OldLine(Stamp(2, 1), TRUE, "K2", Some(1)),
      OldLine(Stamp(2, 0), TRUE, "K1", None),
      OldLine(BadStamp("nomatch"), TRUE, "K1", Some(2)),
      OldLine(BadStamp("badday"), TRUE, "K2", Some(2)),
      OldLine(BadStamp("badmonth"), TRUE, "K1", Some(2)) }

\* DSLogParser.parse_timestamp, lines 81-97: AttributeError when the regex
\* does not match, KeyError for an unknown month, ValueError from
\* fromisoformat
DSLogParser_parse_timestamp(ts) ==
    CASE ts.form = "ok"       -> [ok |-> TRUE,  exc |-> "", dt |-> [wall |-> ts.wall, off |-> ts.off]]
      [] ts.form = "nomatch"  -> [ok |-> FALSE, exc |-> "AttributeError", dt |-> NoTime]
      [] ts.form = "badday"   -> [ok |-> FALSE, exc |-> "ValueError", dt |-> NoTime]
      [] ts.form = "badmonth" -> [ok |-> FALSE, exc |-> "KeyError", dt |-> NoTime]

\* DSLogParser.parse_line, lines 99-119
DSLogParser_parse_line(line) == [has |-> line.bracket, result |-> line]

\* ReplLag.Parser.action, lines 153-166: [agg, exc]; a KeyError is
\* swallowed with whatever was assigned before it
Parser_action(agg, r, ix) ==
    IF r.csn = "" THEN [agg |-> agg, exc |-> ""]
    ELSE LET t == DSLogParser_parse_timestamp(r.ts)
             udt == Instant(t.dt)
             first == agg.start_udt = None \/ agg.start_udt[1] > udt
             opened == IF r.csn \in CsnKeys(agg.csns) THEN agg.csns
                       ELSE Append(agg.csns, [csn |-> r.csn, map |-> <<>>])
             started == [csns |-> opened,
                         start_udt |-> IF first THEN Some(udt) ELSE agg.start_udt,
                         start_dt  |-> IF first THEN Some(t.dt) ELSE agg.start_dt]
             record == [logtime |-> udt, etime |-> r.etime]
         IN IF ~t.ok
            THEN [agg |-> agg, exc |-> IF t.exc = "KeyError" THEN "" ELSE t.exc]
            ELSE IF r.etime = None THEN [agg |-> started, exc |-> ""]
            ELSE [agg |-> [started EXCEPT !.csns =
                             [p \in 1..Len(opened) |->
                                 IF opened[p].csn = r.csn
                                 THEN [csn |-> r.csn,
                                       map |-> PutEntry(opened[p].map, ix, record)]
                                 ELSE opened[p]]],
                  exc |-> ""]

\* ReplLag.parse_files, lines 168-172: the next file, numbered by enumerate
LegacyStartFile ==
    /\ pc = "collect"
    /\ nfiles < MaxFiles
    /\ idx' = nfiles
    /\ nfiles' = nfiles + 1
    /\ lineno' = 0
    /\ pc' = "reading"
    /\ UNCHANGED <<cfg, server_data, pending_ops, current_batch, built, delivered, last_end,
                   aggVars, mergeVars, plotVars, stampVars>>

\* one turn of the loop of DSLogParser.parse_file, lines 126-135: what the
\* line raises is logged and raised again, and nothing catches it
LegacyParseLine(line) ==
    /\ pc = "reading"
    /\ lineno < MaxLines
    /\ lineno' = lineno + 1
    /\ LET parsed == DSLogParser_parse_line(line)
           act == Parser_action(Aggregator, parsed.result, idx)
       IN IF ~parsed.has
          THEN UNCHANGED <<pc, last_end, csns, start_udt, start_dt>>
          ELSE /\ csns' = act.agg.csns
               /\ start_udt' = act.agg.start_udt
               /\ start_dt' = act.agg.start_dt
               /\ pc' = IF act.exc # "" THEN "raised" ELSE pc
               /\ last_end' = IF act.exc # "" THEN "line" ELSE last_end
    /\ UNCHANGED <<cfg, idx, nfiles, server_data, pending_ops, current_batch, built, delivered,
                   hop_lags, mergeVars, plotVars, stampVars>>

LegacyEndOfFile ==
    /\ pc = "reading"
    /\ pc' = "collect"
    /\ last_end' = "eof"
    /\ UNCHANGED <<cfg, idx, nfiles, server_data, lineno, pending_ops, current_batch, built,
                   delivered, aggVars, mergeVars, plotVars, stampVars>>

\* ReplLag.build_result, lines 174-186: start_dt.utcoffset() of None raises
LegacyBuildResult ==
    /\ pc = "collect"
    /\ pc' = IF start_dt = None THEN "raised" ELSE "done"
    /\ UNCHANGED <<cfg, idx, nfiles, server_data, parserVars, aggVars, mergeVars, plotVars, stampVars>>

InitLegacy ==
    /\ InitAnalyzer(DefaultConfig, <<>>)
    /\ MergeIdle

NextLegacy ==
    \/ LegacyStartFile
    \/ \E line \in OldLines : LegacyParseLine(line)
    \/ LegacyEndOfFile
    \/ LegacyBuildResult

SpecLegacy == InitLegacy /\ [][NextLegacy]_vars

InitMerge ==
    /\ \E len \in 1..MaxDocs : \E l \in [1..len -> InputDocs] :
          files = [n \in 1..len |-> Place(l[n], n)]
    /\ mpc = "split"
    /\ file_pos = 0
    /\ json_processed_list = <<>>
    /\ merged_result = NoDoc
    /\ resplit = <<>>
    /\ fail_msg = NoFail
    /\ PlotIdle
    /\ ParserIdle

NextMerge ==
    \/ ProcessFile
    \/ MergeStep
    \/ Resplit

SpecMerge == InitMerge /\ [][NextMerge]_vars

-----------------------------------------------------------------------------
(* ds389_replication_monitoring/library/ds389_logs_plot.py: CsnInfo and     *)
(* LagInfo.  json_dict is the document the merge module wrote: its lag is   *)
(* the sequence of [csn, map] items in the order of the JSON object, a map  *)
(* the sequence of [k, e] items with e = [logtime, etime].                  *)

\* CsnInfo.__init__, lines 110-115: seen tells whether the three times are
\* still None
NewCsnInfo(csn) ==
    [csn |-> csn, seen |-> FALSE, oldest_time |-> 0, lag_time |-> 0, etime |-> 0,
     replicated_on |-> <<>>]

\* CsnInfo.json_parse and _update_times, lines 117-129
CsnInfo_json_parse(info, ix, record) ==
    LET udt == record.logtime
        etime == record.etime[1]
    IN [csn |-> info.csn, seen |-> TRUE,
        oldest_time |-> IF ~info.seen \/ info.oldest_time > udt THEN udt ELSE info.oldest_time,
        lag_time |-> IF ~info.seen \/ info.lag_time < udt THEN udt ELSE info.lag_time,
        etime |-> IF ~info.seen \/ info.etime < etime THEN etime ELSE info.etime,
        replicated_on |-> Append(info.replicated_on, ix)]

\* the inner loop of LagInfo.json_parse, lines 183-186
RECURSIVE ParseReplicas(_, _, _)
ParseReplicas(info, server_map, index_list) ==
    IF server_map = <<>> THEN info
    ELSE LET item == Head(server_map)
         IN ParseReplicas(IF item.k \in index_list
                          THEN CsnInfo_json_parse(info, item.k, item.e)
                          ELSE info,
                          Tail(server_map), index_list)

\* CsnInfo.resolve, lines 131-132: [ok, info]; with no entry parsed lag_time
\* is None and the subscript raises TypeError
CsnInfo_resolve(info) ==
    [ok |-> info.seen,
     info |-> [info EXCEPT !.lag_time = info.lag_time - info.oldest_time]]

\* an option that is None or 0 is falsy
Truthy(opt) == opt # None /\ opt[1] # 0

\* LagInfo.is_filtered, lines 163-172
LagInfo_is_filtered(csninfo, params, index_list) ==
    \/ params.fully_replicated /\ Cardinality(index_list) # Len(csninfo.replicated_on)
    \/ params.not_replicated /\ Cardinality(index_list) = Len(csninfo.replicated_on)
    \/ Truthy(params.lag_time) /\ csninfo.lag_time <= params.lag_time[1]
    \/ Truthy(params.etime) /\ csninfo.etime <= params.etime[1]

\* LagInfo.json_parse, lines 174-189: [ok, lag]
RECURSIVE LagInfo_json_parse(_, _, _)
LagInfo_json_parse(lag_items, params, index_list) ==
    IF lag_items = <<>> THEN [ok |-> TRUE, lag |-> <<>>]
    ELSE LET item == Head(lag_items)
             r == CsnInfo_resolve(ParseReplicas(NewCsnInfo(item.csn), item.map, index_list))
         IN IF ~r.ok THEN [ok |-> FALSE, lag |-> <<>>]
            ELSE LET rest == LagInfo_json_parse(Tail(lag_items), params, index_list)
                 IN [ok |-> rest.ok,
                     lag |-> (IF LagInfo_is_filtered(r.info, params, index_list)
                              THEN <<>> ELSE <<r.info>>) \o rest.lag]

\* self.lag.sort(key=oldest_time), line 192: stable
RECURSIVE SortByOldest(_)
SortByOldest(infos) ==
    IF infos = <<>> THEN <<>>
    ELSE LET rest == SortByOldest(SubSeq(infos, 1, Len(infos) - 1))
             x == infos[Len(infos)]
             n == Cardinality({i \in 1..Len(rest) : rest[i].oldest_time <= x.oldest_time})
         IN SubSeq(rest, 1, n) \o <<x>> \o SubSeq(rest, n + 1, Len(rest))

\* index_list, lines 149 and 178-179
IndexList(params, log_files) ==
    IF params.index = None \/ params.index[1] = {} THEN 0..(Len(log_files) - 1)
    ELSE params.index[1]

\* main, lines 257-263: json_parse, then plot_lag_image, whose self.lag[0]
\* raises IndexError when nothing is kept; every exception ends in fail_json
PlotMain ==
    /\ plot_pc = "load"
    /\ LET parsed == LagInfo_json_parse(json_dict.lag, module_params,
                                        IndexList(module_params, json_dict.log_files))
       IN IF parsed.ok /\ parsed.lag # <<>>
          THEN /\ lag_infos' = SortByOldest(parsed.lag)
               /\ plot_pc' = "plotted"
          ELSE /\ lag_infos' = parsed.lag
               /\ plot_pc' = "failed"
    /\ UNCHANGED <<module_params, json_dict, mergeVars, runVars, parserVars, aggVars, stampVars>>

\* entries as ReplLag.Parser.action stores them
PlotEntries == {[logtime |-> t, etime |-> Some(e)] : t \in 1..3, e \in {1, 3}}

\* replica maps over two log files: none, either or both of the replicas
PlotMaps ==
    {<<>>} \cup {<<[k |-> i, e |-> e]>> : i \in {0, 1}, e \in PlotEntries}
           \cup {<<[k |-> 0, e |-> a], [k |-> 1, e |-> b]>> : a \in PlotEntries, b \in PlotEntries}

\* documents with the change K1 alone, or with K2 before or after it
PlotDocs ==
    LET other == [csn |-> "K2", map |-> <<[k |-> 0, e |-> [logtime |-> 2, etime |-> Some(3)]]>>]
    IN {[log_files |-> <<"f1", "f2">>, lag |-> l] :
           l \in UNION {{<<[csn |-> "K1", map |-> m]>>,
                         <<[csn |-> "K1", map |-> m], other>>,
                         <<other, [csn |-> "K1", map |-> m]>>} : m \in PlotMaps}}

\* options of the module: the thresholds absent, 0 or 1 tick
PlotParams ==
    {[fully_replicated |-> f, not_replicated |-> n, lag_time |-> l, etime |-> e, index |-> ix] :
        f \in BOOLEAN, n \in BOOLEAN, l \in {None, Some(0), Some(1)},
        e \in {None, Some(1)}, ix \in {None, Some({0})}}

InitPlot ==
    /\ module_params \in PlotParams
    /\ json_dict \in PlotDocs
    /\ lag_infos = <<>>
    /\ plot_pc = "load"
    /\ StampIdle
    /\ files = <<>>
    /\ mpc = "split"
    /\ file_pos = 0
    /\ json_processed_list = <<>>
    /\ merged_result = NoDoc
    /\ resplit = <<>>
    /\ fail_msg = NoFail
    /\ InitAnalyzer(DefaultConfig, <<>>)

NextPlot == PlotMain

SpecPlot == InitPlot /\ [][NextPlot]_vars

-----------------------------------------------------------------------------
(* parse_timestamp of both parsers on the fraction of a second: the digits  *)
(* the group 'nanosecond' of REGEX_TIMESTAMP matched, most significant      *)
(* first.                                                                   *)

MaxFracDigits == 9

FracDigits == {0, 5, 9}

\* int(parsed['nanosecond'])
RECURSIVE IntOf(_)
IntOf(digits) ==
    IF digits = <<>> THEN 0
    ELSE 10 * IntOf(SubSeq(digits, 1, Len(digits) - 1)) + digits[Len(digits)]

\* dt.replace(microsecond=int(parsed['nanosecond']) // 1000), lines
\* 175-177: [ok, microsecond]; replace raises ValueError outside
\* 0..999999; an empty group leaves the microsecond 0
replace_microsecond(digits) ==
    IF digits = <<>> THEN [ok |-> TRUE, microsecond |-> 0]
    ELSE LET us == IntOf(digits) \div 1000
         IN IF us <= 999999 THEN [ok |-> TRUE, microsecond |-> us]
            ELSE [ok |-> FALSE, microsecond |-> 0]

ParseFraction ==
    /\ frac # <<>>
    /\ micro = None
    /\ micro' = Some(replace_microsecond(frac))
    /\ UNCHANGED <<frac, mergeVars, runVars, parserVars, aggVars, plotVars>>

InitStamp ==
    /\ \E n \in 1..MaxFracDigits : frac \in [1..n -> FracDigits]
    /\ micro = None
    /\ InitAnalyzer(DefaultConfig, <<>>)
    /\ files = <<>>
    /\ mpc = "split"
    /\ file_pos = 0
    /\ json_processed_list = <<>>
    /\ merged_result = NoDoc
    /\ resplit = <<>>
    /\ fail_msg = NoFail
    /\ module_params = NoParams
    /\ json_dict = [log_files |-> <<>>, lag |-> <<>>]
    /\ lag_infos = <<>>
    /\ plot_pc = "load"

NextStamp == ParseFraction

SpecStamp == InitStamp /\ [][NextStamp]_vars

-----------------------------------------------------------------------------
(* Properties of the merge/split codec, checked under SpecMerge *)

Written == mpc \in {"written", "resplit"} \/ (mpc = "failed" /\ merged_result # NoDoc)

\* the items of a replica map addressed to index i
ItemsAt(inner, i) == {p \in 1..Len(inner) : inner[p].k = i}

UtcInstant(dt) == dt.wall - dt.off

\* C1: for a list X of single-file documents (json_processed_list holds
\* exactly such documents), split_json(merge_jsons(X)) is X, element by
\* element.
C1_RoundTrip ==
    mpc = "resplit" => resplit = json_processed_list

\* C2: split_json of a merged document with N log files returns N documents;
\* every entry the merged document holds under change id K at index i is in
\* output i under K at key 0, and output i holds nothing addressed elsewhere.
C2_SplitRoutesEveryEntry ==
    mpc = "resplit" =>
        /\ Len(resplit) = Len(merged_result.logfiles)
        /\ \A K \in DOMAIN merged_result.lag :
              \A p \in 1..Len(merged_result.lag[K]) :
                 LET item == merged_result.lag[K][p]
                     out == resplit[item.k + 1]
                 IN K \in DOMAIN out.lag /\ out.lag[K] = <<[k |-> 0, e |-> item.e]>>
        /\ \A i \in 1..Len(resplit) :
              \A K \in DOMAIN resplit[i].lag :
                 /\ K \in DOMAIN merged_result.lag
                 /\ \E p \in ItemsAt(merged_result.lag[K], i - 1) :
                       resplit[i].lag[K] = <<[k |-> 0, e |-> merged_result.lag[K][p].e]>>

\* C3: merge_jsons of N single-file documents has the union of their change
\* ids, holds input i's entry for K at index i (and nothing else), and lists
\* input i's log file at position i.
C3_MergeRekeys ==
    Written =>
        LET X == json_processed_list
            M == merged_result
        IN /\ DOMAIN M.lag = UNION {DOMAIN X[i].lag : i \in 1..Len(X)}
           /\ \A i \in 1..Len(X) : \A K \in DOMAIN X[i].lag :
                 /\ Cardinality(ItemsAt(M.lag[K], i - 1)) = 1
                 /\ \A p \in ItemsAt(M.lag[K], i - 1) : M.lag[K][p].e = X[i].lag[K][1].e
           /\ \A K \in DOMAIN M.lag : \A p \in 1..Len(M.lag[K]) :
                 /\ M.lag[K][p].k + 1 \in 1..Len(X)
                 /\ K \in DOMAIN X[M.lag[K][p].k + 1].lag
           /\ Len(M.logfiles) = Len(X)
           /\ \A i \in 1..Len(X) : M.logfiles[i] = X[i].logfiles[1]

\* a merge of three inputs in which the last two share a change id that the
\* first does not have
C3_Witness ==
    /\ Written
    /\ Len(json_processed_list) = 3
    /\ \E K \in CSNs :
          /\ K \notin DOMAIN json_processed_list[1].lag
          /\ K \in DOMAIN json_processed_list[2].lag
          /\ K \in DOMAIN json_processed_list[3].lag
          /\ json_processed_list[2].lag[K] # json_processed_list[3].lag[K]

\* C9: an input document lacking log-files, lag or start-time makes the
\* module fail with a message that names that input file.
Offending == {n \in 1..Len(files) : Lacks(files[n])}

C9_MissingFieldNamesFile ==
    (mpc \in {"written", "resplit", "failed"} /\ Offending # {}) =>
        /\ mpc = "failed"
        /\ merged_result = NoDoc
        /\ fail_msg.exc = "KeyError" => fail_msg.file \in Offending

\* C10: start-time, utc-start-time and utc-offset of the merged document are
\* those of the first input whose start-time is the earliest UTC instant.
C10_EarliestStartCopied ==
    Written =>
        LET X == json_processed_list
        IN \E e \in 1..Len(X) :
              /\ \A j \in 1..Len(X) : UtcInstant(X[e].start) <= UtcInstant(X[j].start)
              /\ \A j \in 1..(e-1) : UtcInstant(X[j].start) > UtcInstant(X[e].start)
              /\ merged_result.has_start
              /\ merged_result.start = X[e].start
              /\ merged_result.utc_start = X[e].utc_start
              /\ merged_result.utc_offset = X[e].utc_offset

\* the earliest instant carries the latest wall-clock reading, and two
\* different strings tie for the earliest instant
C10_Witness ==
    /\ Written
    /\ \E i, j \in 1..Len(json_processed_list) :
          LET a == json_processed_list[i].start
              b == json_processed_list[j].start
          IN /\ a.wall > b.wall
             /\ UtcInstant(a) < UtcInstant(b)
             /\ merged_result.start = a

-----------------------------------------------------------------------------
(* Properties of the end-to-end scenario, checked under SpecE2E *)

\* the scenario's logs hold an operation line before the result line
Paired == Len(server_data[1].lines) = 2

\* the instant T of replica 0's result line
ScenarioT ==
    LET ts == Last(server_data[1].lines).ts
    IN ts.wall - ts.off

BothRead == pc = "collect" /\ nfiles = Len(server_data)

Threshold == cfg.lag_time_lowest[1]

\* what the scenario is expected to give: once both logs are read, the map
\* holds for ChangeK the entries of replica 0 at T and of replica 1 at
\* T + 3.5 s; once the filters have run, ChangeK is kept with the one hop of
\* 3.5 s when lag-time-lowest is 3 s, and dropped when it is 4 s
Expected ==
    /\ BothRead =>
          /\ CsnKeys(csns) = {ChangeK}
          /\ LET m == MapOf(csns, ChangeK)
             IN /\ Len(m) = 2
                /\ m[1].k = 0 /\ m[1].e.logtime = ScenarioT
                /\ m[2].k = 1 /\ m[2].e.logtime = ScenarioT + Lag35
    /\ (pc = "done" /\ Threshold = 3 * TicksPerSecond) =>
          /\ CsnKeys(csns) = {ChangeK}
          /\ Len(MapOf(csns, ChangeK)) = 2
          /\ Len(hop_lags) = 1
          /\ hop_lags[1].csn = ChangeK
          /\ Len(hop_lags[1].hops) = 1
          /\ hop_lags[1].hops[1].hop_lag = Lag35
          /\ hop_lags[1].hops[1].supplier = 0
          /\ hop_lags[1].hops[1].consumer = 1
    /\ (pc = "done" /\ Threshold = 4 * TicksPerSecond) =>
          /\ csns = <<>>
          /\ hop_lags = <<>>
    /\ pc # "raised"

-----------------------------------------------------------------------------
(* Properties of the parsers, checked under SpecLegacy and Spec *)

\* C5: a line whose processing raises is logged and skipped and parse_file
\* goes on with the next line; no line makes parse_file raise or ends the
\* run.
C5_RaisingLineSkipped == ~(pc = "raised" /\ last_end = "line")

\* C6: when a file's parse has ended, at end of file or by a read failure,
\* the parser's pending_ops and its current batch are empty, so none of it
\* is there while another file is parsed.
C6_TablesEmptyAtFileEnd ==
    pc # "reading" => pending_ops = <<>> /\ current_batch = <<>>

InRange(dt) ==
    /\ cfg.has_start => dt.wall - dt.off >= cfg.start_time
    /\ cfg.has_end => dt.wall - dt.off <= cfg.end_time

Delivered(r) == \E j \in 1..Len(delivered) : delivered[j] = r

\* the read of a later file failed while a record that had passed the range
\* check was still buffered
C6_Witness ==
    /\ pc = "raised"
    /\ last_end = "error"
    /\ nfiles > 1
    /\ \E i \in 1..Len(built) : InRange(built[i].timestamp) /\ ~Delivered(built[i])

\* C7: with a time range configured, no record whose timestamp is before
\* start or after end is delivered to the aggregator, whether it came from a
\* terminal keyword through a batch or from the end-of-file flush; a record
\* exactly at start or at end is delivered: once the file has been read to
\* its end, every record built within the range has been delivered.
C7_OnlyInRangeDelivered ==
    /\ \A j \in 1..Len(delivered) : InRange(delivered[j].timestamp)
    /\ (pc = "collect" /\ last_end = "eof") =>
          \A i \in 1..Len(built) : InRange(built[i].timestamp) => Delivered(built[i])

\* a file read to its end under the range [1, 2]: a flushed record exactly
\* at end was delivered, a record after end was built and not delivered
C7_Witness ==
    /\ cfg.has_start /\ cfg.has_end
    /\ pc = "collect" /\ last_end = "eof"
    /\ \E j \in 1..Len(delivered) :
          /\ delivered[j].timestamp.wall - delivered[j].timestamp.off = cfg.end_time
          /\ delivered[j].etime = None
    /\ \E i \in 1..Len(built) :
          /\ built[i].timestamp.wall - built[i].timestamp.off > cfg.end_time
          /\ ~Delivered(built[i])

-----------------------------------------------------------------------------
(* Properties of the aggregator, checked under SpecOrder *)

EmptyAggregator == [csns |-> <<>>, start_udt |-> None, start_dt |-> None]

Reverse(seq) == [i \in 1..Len(seq) |-> seq[Len(seq) + 1 - i]]

\* the aggregator's state after the given files, read in the given order
RECURSIVE AggregateAll(_, _)
AggregateAll(agg, srcs) ==
    IF srcs = <<>> THEN agg
    ELSE AggregateAll(ConsumeAll(agg, Head(srcs).records, Head(srcs).idx), Tail(srcs))

\* the change-id map as a mapping from (change id, replica index) to entry
AsMapping(csn_map) ==
    UNION {{<<csn_map[i].csn, csn_map[i].map[j].k, csn_map[i].map[j].e>> :
               j \in 1..Len(csn_map[i].map)} : i \in 1..Len(csn_map)}

\* C8: with the replica index of every log source fixed, the change-id map
\* (as a mapping from change id and replica index to entry) and start-time,
\* utc-start-time and utc-offset are the same whichever order the files are
\* processed in.
C8_OrderIndependent ==
    pc = "done" =>
        LET other == AggregateAll(EmptyAggregator, Reverse(server_data))
            mine == build_result(Aggregator)
            theirs == build_result(other)
        IN /\ AsMapping(csns) = AsMapping(other.csns)
           /\ mine.ok = theirs.ok
           /\ mine.start_time = theirs.start_time
           /\ mine.utc_start_time = theirs.utc_start_time
           /\ mine.utc_offset = theirs.utc_offset

-----------------------------------------------------------------------------
(* Properties of the filters, checked under SpecFilter *)

\* the change-id map parse_logs holds before the filters run
Unfiltered == AggregateAll(EmptyAggregator, server_data).csns

LagOf(server_map) == Max(Logtimes(server_map)) - Min(Logtimes(server_map))

Kept == CsnKeys(csns)

C12_ShownAtOrAboveThreshold ==
    (/\ pc = "done"
     /\ cfg.lag_time_lowest # None
     /\ cfg.etime_lowest = None
     /\ ~cfg.only_fully_replicated /\ ~cfg.only_not_replicated) =>
        Kept = {K \in CsnKeys(Unfiltered) :
                   LagOf(MapOf(Unfiltered, K)) >= cfg.lag_time_lowest[1]}

\* C14: for every change with at least two replica entries, every hop lag
\* computed by _compute_hop_lags is >= 0, whatever the logtimes and the
\* insertion order of the replica entries.
C14_HopLagsNonNegative ==
    pc = "done" =>
        \A i \in 1..Len(hop_lags) :
            /\ Len(hop_lags[i].hops) = Len(MapOf(csns, hop_lags[i].csn)) - 1
            /\ \A j \in 1..Len(hop_lags[i].hops) : hop_lags[i].hops[j].hop_lag >= 0

\* a kept change whose replica map has the later arrival inserted first: its
\* hop runs from the replica inserted second to the one inserted first
C14_Witness ==
    /\ pc = "done"
    /\ \E i \in 1..Len(hop_lags) :
          LET m == MapOf(csns, hop_lags[i].csn)
          IN /\ Len(m) >= 2
             /\ m[1].e.logtime > m[2].e.logtime
             /\ hop_lags[i].hops[1].hop_lag > 0
             /\ hop_lags[i].hops[1].supplier = m[2].e.server_name
             /\ hop_lags[i].hops[1].consumer = m[1].e.server_name

\* C15: when fully-replicated-only and not-replicated-only are both set,
\* the filter keeps no change id, whatever the change-id map and the number
\* of configured replicas.
C15_BothFlagsKeepNothing ==
    (/\ pc \in {"done", "raised"}
     /\ cfg.only_fully_replicated /\ cfg.only_not_replicated) =>
        /\ pc = "done"
        /\ csns = <<>>
        /\ hop_lags = <<>>

\* both flags set with no threshold, and the map held a change seen on every
\* configured replica
C15_Witness ==
    /\ pc = "done"
    /\ cfg.only_fully_replicated /\ cfg.only_not_replicated
    /\ cfg.lag_time_lowest = None /\ cfg.etime_lowest = None
    /\ cfg.num_dirs > 1
    /\ \E K \in CsnKeys(Unfiltered) : Len(MapOf(Unfiltered, K)) = cfg.num_dirs
    /\ csns = <<>>

\* the replicas of a hop list in chain order: the first supplier, then the
\* consumers
ChainOf(hops) == <<hops[1].supplier>> \o [j \in 1..Len(hops) |-> hops[j].consumer]

\* the logtime of replica i in a replica map
LogtimeAt(server_map, i) ==
    server_map[CHOOSE p \in 1..Len(server_map) : server_map[p].k = i].e.logtime

C28_EtimeFilterNeverRaises ==
    (cfg.etime_lowest # None /\ nfiles > 0) => pc # "raised"

\* C30: for every change with at least two replica entries the hop lags sum
\* to max logtime - min logtime over its replica entries (the value the
\* lag-time-lowest filter compares with its threshold) and there are exactly
\* (replica count - 1) hops.
RECURSIVE SumHopLags(_)
SumHopLags(hops) ==
    IF hops = <<>> THEN 0 ELSE Head(hops).hop_lag + SumHopLags(Tail(hops))

-----------------------------------------------------------------------------
(* Properties of the older plot module, checked under SpecPlot *)

\* the replica entries of change K that json_parse reads
EntriesRead(K) ==
    LET m == MapOf(json_dict.lag, K)
    IN {m[i].e : i \in {j \in 1..Len(m) :
                           m[j].k \in IndexList(module_params, json_dict.log_files)}}

\* C13: with etime-lowest set to E, a change id is kept only if every one of
\* its replica entries has an etime strictly greater than E; it is dropped
\* as soon as a single replica entry has an etime <= E, even if another
\* entry's etime exceeds E.
C13_EveryEtimeAbove ==
    (plot_pc # "load" /\ module_params.etime # None) =>
        \A i \in 1..Len(lag_infos) :
            \A e \in EntriesRead(lag_infos[i].csn) : e.etime[1] > module_params.etime[1]

-----------------------------------------------------------------------------
(* Properties of pending_ops, checked under SpecPairs *)

\* the pending entry of a pair
EntryOf(pending, pair) == pending[CHOOSE i \in PendingAt(pending, pair) : TRUE]

\* the step in which the line, a terminal one, closes its open pair and a
\* record is built
Closes(line) ==
    /\ ParseLine(line)
    /\ line.kw \in TerminalKeywords
    /\ PendingAt(pending_ops, line.pair) # {}
    /\ Len(built') = Len(built) + 1

\* C16: when a terminal keyword closes an open (conn, op) pair, the emitted
\* record carries the change id accumulated for the pair, that of the last
\* line of the operation that had one, even when the terminal line itself
\* carries none.
C16_RecordCarriesAccumulatedCsn ==
    [][\A line \in PairLines :
          Closes(line) =>
              LET op == EntryOf(pending_ops, line.pair)
              IN Last(built').csn = IF line.csn # "" THEN line.csn
                                    ELSE IF op.has_csn THEN op.csn ELSE ""]_vars

\* C17: while a (conn, op) pair is open, once a line's dn has matched a
\* monitored suffix and the pair's suffix and target dn are stored, no later
\* line of the same operation changes them: the first matching dn wins
\* until the pair is closed or flushed.
C17_FirstMatchWins ==
    [][\A line \in PairLines :
          (/\ ParseLine(line)
           /\ PendingAt(pending_ops, line.pair) # {}
           /\ EntryOf(pending_ops, line.pair).suffix # NoDN
           /\ PendingAt(pending_ops', line.pair) # {}) =>
              /\ EntryOf(pending_ops', line.pair).suffix = EntryOf(pending_ops, line.pair).suffix
              /\ EntryOf(pending_ops', line.pair).target_dn =
                     EntryOf(pending_ops, line.pair).target_dn]_vars

\* C18: at end of file a still-pending (conn, op) pair produces a record if
\* and only if both a change id and a matched suffix were captured for it;
\* a pair with a change id but no matched suffix, or with a matched suffix
\* but no change id, produces none.
C18_FlushNeedsCsnAndSuffix ==
    [][EndOfFile =>
          LET batched == Len(process_batch(current_batch, cfg))
          IN \A i \in 1..Len(pending_ops) :
                 (\E j \in (Len(delivered) + batched + 1)..Len(delivered') :
                       delivered'[j].pair = pending_ops[i].pair)
                     <=> (pending_ops[i].has_csn /\ pending_ops[i].suffix # NoDN)]_vars

\* C19: the aggregator discards a record only for lacking a change id: a
\* record that has a change id but no matched suffix is inserted into the
\* change-id map, under the index of its server.
C19_OnlyCsnRequired ==
    pc \in {"collect", "reading"} =>
        \A j \in 1..Len(delivered) :
            delivered[j].csn # "" =>
                /\ delivered[j].csn \in CsnKeys(csns)
                /\ \E i \in 1..Len(MapOf(csns, delivered[j].csn)) :
                      MapOf(csns, delivered[j].csn)[i].k \in 0..idx

\* C20: a line that raises while it is processed for pair P, like a line
\* processed normally for P, leaves the pending entry of every other pair
\* unchanged and neither adds nor removes a pair other than P.
C20_OtherPairsUntouched ==
    [][\A line \in PairLines :
          ParseLine(line) =>
              LET Other(e) == e.pair # line.pair
              IN SelectSeq(pending_ops', Other) = SelectSeq(pending_ops, Other)]_vars

\* three lines were read: one opened operation 1 with a monitored dn, the
\* line whose dn cannot be decoded raised for operation 2, and the RESULT
\* closed operation 1; operation 2 is pending as the raising line left it
C20_Witness ==
    /\ pc = "reading"
    /\ lineno = 3
    /\ Len(pending_ops) = 1
    /\ pending_ops[1].pair = ConnOp2
    /\ pending_ops[1].start_time = Stamp(2, 0)
    /\ pending_ops[1].suffix = NoDN
    /\ \E j \in 1..Len(built) : built[j].pair = ConnOp1 /\ built[j].suffix # NoDN

\* C29: a line with a terminal keyword (RESULT, ABANDON, DISCONNECT) for a
\* (conn, op) pair that is not open emits no record and leaves pending_ops
\* unchanged.
NotOpen(pair) == \A i \in 1..Len(pending_ops) : pending_ops[i].pair # pair

C29_UnopenedTerminalIsNoOp ==
    [][\A line \in PairLines :
          (/\ ParseLine(line)
           /\ line.kw \in TerminalKeywords
           /\ NotOpen(line.pair))
          => /\ pending_ops' = pending_ops
             /\ built' = built
             /\ current_batch' = current_batch
             /\ delivered' = delivered]_vars

\* the first line of a file was read and no operation is open: in PairLines
\* every line without a terminal keyword opens its pair, so the line was a
\* RESULT or an ABANDON; nothing was emitted
C29_Witness ==
    /\ pc = "reading"
    /\ lineno = 1
    /\ pending_ops = <<>>
    /\ built = <<>>
    /\ current_batch = <<>>

-----------------------------------------------------------------------------
(* Properties of the batches, checked under SpecBatch *)

\* the records the parser built, of this file, that pass the range check
BuiltInRange == SelectSeq(built, LAMBDA r : InRange(r.timestamp))

Unparseable(pending) ==
    {pending[i].pair : i \in {j \in 1..Len(pending) :
                                 ~parse_timestamp(pending[j].start_time).ok}}

C26_NoDefaultedDuration ==
    [][\A j \in (Len(built) + 1)..Len(built') :
           built'[j].pair \notin Unparseable(pending_ops)]_vars

-----------------------------------------------------------------------------
(* Properties of the insertion, checked under SpecOrder *)

\* the items of the change-id map other than the one at (K, i)
Elsewhere(csn_map, K, i) == {t \in AsMapping(csn_map) : t[1] # K \/ t[2] # i}

\* no change id and no replica index occurs twice
OneEntryPerKey(csn_map) ==
    /\ \A a, b \in 1..Len(csn_map) : csn_map[a].csn = csn_map[b].csn => a = b
    /\ \A p \in 1..Len(csn_map) :
          \A a, b \in 1..Len(csn_map[p].map) :
              csn_map[p].map[a].k = csn_map[p].map[b].k => a = b

\* C22: inserting a record for change id K at replica index i replaces any
\* prior entry at (K, i) and changes nothing else: the entries at (K, j),
\* j # i, and all entries of other change ids are unchanged, and the map
\* never holds more than one entry per (change id, replica index).
C22_InsertTouchesOneEntry ==
    [][ConsumeFile =>
          LET src == server_data[nfiles + 1]
          IN IF src.records = <<>> THEN csns' = csns
             ELSE LET r == src.records[1]
                  IN /\ Elsewhere(csns', r.csn, src.idx) = Elsewhere(csns, r.csn, src.idx)
                     /\ \E t \in AsMapping(csns') :
                           /\ t[1] = r.csn /\ t[2] = src.idx
                           /\ t[3].logtime = Instant(r.timestamp)
                     /\ OneEntryPerKey(csns')]_vars

\* two files of the same replica index yielded a record of the same change
\* id at different instants: the map holds the one entry of the second
C22_Witness ==
    /\ nfiles = 2
    /\ server_data[1].idx = server_data[2].idx
    /\ server_data[1].records # <<>> /\ server_data[2].records # <<>>
    /\ server_data[1].records[1].csn = server_data[2].records[1].csn
    /\ Instant(server_data[1].records[1].timestamp) # Instant(server_data[2].records[1].timestamp)
    /\ Len(csns) = 1
    /\ Len(csns[1].map) = 1
    /\ csns[1].map[1].e.logtime = Instant(server_data[2].records[1].timestamp)

\* the records accepted so far, in the order they were consumed
RECURSIVE AcceptedOf(_)
AcceptedOf(srcs) ==
    IF srcs = <<>> THEN <<>>
    ELSE SelectSeq(Head(srcs).records, LAMBDA r : r.csn # "" /\ r.suffix # NoDN)
         \o AcceptedOf(Tail(srcs))

Accepted == AcceptedOf(SubSeq(server_data, 1, nfiles))

\* C23: after any sequence of accepted records utc-start-time is the
\* smallest UTC instant among them, start-time and utc-offset are those of
\* the first accepted record that reached that instant (a later record
\* with an equal instant does not replace it), and utc-start-time is <=
\* the logtime of every entry in the change-id map.
C23_EarliestFirstSeen ==
    IF Accepted = <<>>
    THEN start_udt = None /\ start_dt = None /\ csns = <<>>
    ELSE LET least == Min({Instant(Accepted[j].timestamp) : j \in 1..Len(Accepted)})
             first == Min({j \in 1..Len(Accepted) : Instant(Accepted[j].timestamp) = least})
             res == build_result(Aggregator)
         IN /\ start_udt = Some(least)
            /\ start_dt = Some(Accepted[first].timestamp)
            /\ res.ok
            /\ res.utc_start_time = least
            /\ res.start_time = Accepted[first].timestamp
            /\ res.utc_offset = Accepted[first].timestamp.off
            /\ \A t \in AsMapping(csns) : start_udt[1] <= t[3].logtime

\* the second record read is at the instant of the first, written in
\* another offset: start-time stays that of the first
C23_Witness ==
    /\ nfiles = 2
    /\ Len(Accepted) = 2
    /\ Instant(Accepted[1].timestamp) = Instant(Accepted[2].timestamp)
    /\ Accepted[1].timestamp.off # Accepted[2].timestamp.off
    /\ start_dt = Some(Accepted[1].timestamp)

-----------------------------------------------------------------------------
(* Property of the change-id map, checked under SpecLegacy *)

\* C27: in every reachable state of every aggregator each change id in the
\* change-id map has at least one replica entry.
C27_NoEmptyReplicaMap ==
    \A p \in 1..Len(csns) : csns[p].map # <<>>

-----------------------------------------------------------------------------
(* Properties of parse_timestamp, checked under SpecStamp *)

RECURSIVE Pow10(_)
Pow10(n) == IF n = 0 THEN 1 ELSE 10 * Pow10(n - 1)

\* the fraction of a second the digits denote, in whole microseconds,
\* truncated
TruncatedMicroseconds(digits) == (IntOf(digits) * 1000000) \div Pow10(Len(digits))

\* C25: for a timestamp whose fractional part has any length from 1 to 9
\* digits, the sub-second component of the instant parse_timestamp returns
\* is the fraction of a second those digits denote, truncated to whole
\* microseconds.
C25_FractionTruncated ==
    (micro # None /\ Len(frac) \in 1..9) =>
        /\ micro[1].ok
        /\ micro[1].microsecond = TruncatedMicroseconds(frac)

====
